---- MODULE Spec2Model ----
(***************************************************************************)
(* Workflow hygiene engine of rrctl: the repo-defrag extractor             *)
(* (repo_defrag.go) and the repo-autofix transformer and diff generator.   *)
(*                                                                         *)
(* A text is the sequence of lines strings.Split(content, "\n") yields.    *)
(* A line is a record                                                      *)
(*     [ind, dash, key, val, ref]                                          *)
(* standing for  <ind spaces>["- "]<key>: <val>[@<ref>] .  The blank line, *)
(* the document separator "---" and a comment line are special keys.       *)
(* Scalars are plain (unquoted) and lines carry no trailing comment or     *)
(* trailing blanks, so a line is decided by its indentation, its list      *)
(* marker, its key and its value.                                          *)
(***************************************************************************)
EXTENDS Integers, Sequences, FiniteSets, TLC

VARIABLES file, original, fixed, changed, runs, report, patch,
          dir, env, defrag, autofix

vars == <<file, original, fixed, changed, runs, report, patch,
          dir, env, defrag, autofix>>

\* ------------------------------------------------------------------ bounds
MaxLines == 4
MaxRuns == 2
MaxDiffLen == 3
MaxJobs == 2
MaxCrons == 6
MaxAge == 2
MaxSteps == 2

\* ------------------------------------------------------------------- lines
L(ind, dash, key, val, ref) ==
    [ind |-> ind, dash |-> dash, key |-> key, val |-> val, ref |-> ref]

Blank == L(0, FALSE, "", "", "")
DocSep == L(0, FALSE, "---", "", "")
Comment == L(0, FALSE, "#", "concurrency: none", "")

IsBlank(l) == l.key = "" /\ ~l.dash
IsDocSep(l) == l.key = "---"
IsComment(l) == l.key = "#"
\* a scalar whose opening quote is never closed
IsMalformed(l) == l.val = "'oops"

\* ----------------------------------------------------------------- strings
HasPrefix(s, p) == Len(s) >= Len(p) /\ SubSeq(s, 1, Len(p)) = p
HasSuffix(s, p) == Len(s) >= Len(p) /\ SubSeq(s, Len(s) - Len(p) + 1, Len(s)) = p

RECURSIVE TrimSpace(_)
TrimSpace(s) ==
    IF HasPrefix(s, " ") THEN TrimSpace(SubSeq(s, 2, Len(s)))
    ELSE IF HasSuffix(s, " ") THEN TrimSpace(SubSeq(s, 1, Len(s) - 1))
    ELSE s

\* strings.Split(s, ",")
RECURSIVE Split(_)
Split(s) ==
    LET at == {i \in 1..Len(s) : SubSeq(s, i, i) = ","}
        c == CHOOSE i \in at : \A j \in at : i <= j
    IN IF at = {} THEN <<s>>
       ELSE <<SubSeq(s, 1, c - 1)>> \o Split(SubSeq(s, c + 1, Len(s)))

\* the value of a scalar as written: single quotes around it are dropped
Unquote(v) ==
    IF Len(v) >= 2 /\ HasPrefix(v, "'") /\ HasSuffix(v, "'")
    THEN SubSeq(v, 2, Len(v) - 1) ELSE v

\* a flow sequence written on the key's own line
IsFlowSeq(l) == HasPrefix(l.val, "[") /\ HasSuffix(l.val, "]")
FlowItems(v) ==
    LET toks == Split(SubSeq(v, 2, Len(v) - 1))
        items == [i \in DOMAIN toks |-> TrimSpace(toks[i])]
    IN IF HasPrefix(v, "[") /\ HasSuffix(v, "]")
       THEN SelectSeq(items, LAMBDA x : x # "") ELSE <<>>

\* The lines a workflow file is written from, in file order.
Template == <<
    Comment,
    L(0, FALSE, "name", "CI", ""),
    L(0, FALSE, "on", "[push]", ""),
    L(0, FALSE, "concurrency", "ci", ""),
    DocSep,
    L(0, FALSE, "name", "CI", ""),
    L(0, FALSE, "on", "[push]", ""),
    L(0, FALSE, "concurrency", "ci", ""),
    L(0, FALSE, "jobs", "", ""),
    L(2, FALSE, "build", "", ""),
    L(4, FALSE, "name", "Build", ""),
    L(4, FALSE, "runs-on", "ubuntu-22.04", ""),
    L(4, FALSE, "concurrency", "build", ""),
    L(4, FALSE, "steps", "", ""),
    L(6, TRUE, "uses", "actions/checkout", ""),
    L(6, TRUE, "uses", "actions/setup-go", "main"),
    L(6, TRUE, "uses", "actions/checkout", "v3"),
    L(6, TRUE, "uses", "docker://alpine", "latest"),
    L(8, FALSE, "uses", "./local", ""),
    L(4, FALSE, "run", "'oops", ""),
    Blank >>

RECURSIVE SubTexts(_, _)
SubTexts(i, n) ==
    IF n = 0 \/ i > Len(Template) THEN {<<>>}
    ELSE {<<>>} \cup
         UNION {{<<Template[j]>> \o t : t \in SubTexts(j + 1, n - 1)} :
                j \in i..Len(Template)}

\* strings.Split never returns an empty slice: the empty file is one blank line
Texts == SubTexts(1, MaxLines) \ {<<>>}

\* ------------------------------------------------------- yaml.v3 decoding
\* Block-structure decoding of one document into the entries of the
\* map[string]any it yields: [path, kind, val, ref], kind one of
\* "scalar", "list", "null", "map", "seq".
ItemName(n) == <<"#1", "#2", "#3", "#4", "#5", "#6", "#7", "#8", "#9">>[n]

Frame(ind, kind, path, keys, same) ==
    [ind |-> ind, kind |-> kind, path |-> path, keys |-> keys, same |-> same, n |-> 0]

Entry(path, kind, val, ref) ==
    [path |-> path, kind |-> kind, val |-> val, ref |-> ref]

ParseStart == [err |-> FALSE, stack |-> <<>>, pend |-> "", entries |-> <<>>]

Top(st) == st.stack[Len(st.stack)]

ScalarEntry(path, l) ==
    Entry(path, IF IsFlowSeq(l) THEN "list" ELSE "scalar", Unquote(l.val), l.ref)

\* a key written with nothing after the colon gets its value from the next line
ResolvePending(st, l) ==
    IF st.pend = "" THEN st
    ELSE LET top == Top(st)
             ppath == Append(top.path, st.pend)
         IN IF l.ind > top.ind
            THEN [st EXCEPT !.pend = "",
                      !.entries = Append(@, Entry(ppath, IF l.dash THEN "seq" ELSE "map", "", "")),
                      !.stack = Append(@, Frame(l.ind, IF l.dash THEN "seq" ELSE "map", ppath, {}, FALSE))]
            ELSE IF l.ind = top.ind /\ l.dash
            THEN [st EXCEPT !.pend = "",
                      !.entries = Append(@, Entry(ppath, "seq", "", "")),
                      !.stack = Append(@, Frame(l.ind, "seq", ppath, {}, TRUE))]
            ELSE [st EXCEPT !.pend = "",
                      !.entries = Append(@, Entry(ppath, "null", "", ""))]

RECURSIVE PopTo(_, _)
PopTo(st, l) ==
    IF Len(st.stack) > 1 /\
       (Top(st).ind > l.ind \/
        (Top(st).kind = "seq" /\ Top(st).same /\ Top(st).ind = l.ind /\ ~l.dash))
    THEN PopTo([st EXCEPT !.stack = SubSeq(@, 1, Len(@) - 1)], l)
    ELSE st

Place(st, l) ==
    LET top == Top(st)
        d == Len(st.stack)
    IN IF top.ind # l.ind THEN [st EXCEPT !.err = TRUE]
       ELSE IF top.kind = "map"
       THEN IF l.dash \/ l.key \in top.keys THEN [st EXCEPT !.err = TRUE]
            ELSE LET st1 == [st EXCEPT !.stack[d].keys = @ \cup {l.key}]
                     p == Append(top.path, l.key)
                 IN IF l.val = "" THEN [st1 EXCEPT !.pend = l.key]
                    ELSE [st1 EXCEPT !.entries = Append(@, ScalarEntry(p, l))]
       ELSE IF ~l.dash THEN [st EXCEPT !.err = TRUE]
            ELSE LET ip == Append(top.path, ItemName(top.n + 1))
                     st1 == [st EXCEPT !.stack[d].n = @ + 1]
                 IN IF l.key = ""
                    THEN [st1 EXCEPT !.entries = Append(@, ScalarEntry(ip, l))]
                    ELSE LET st2 == [st1 EXCEPT
                                 !.entries = Append(@, Entry(ip, "map", "", "")),
                                 !.stack = Append(@, Frame(l.ind + 2, "map", ip, {l.key}, FALSE))]
                             p == Append(ip, l.key)
                         IN IF l.val = "" THEN [st2 EXCEPT !.pend = l.key]
                            ELSE [st2 EXCEPT !.entries = Append(@, ScalarEntry(p, l))]

ParseLine(st, l) ==
    IF st.err THEN st
    ELSE IF IsMalformed(l) THEN [st EXCEPT !.err = TRUE]
    ELSE IF st.stack = <<>>
    THEN Place([st EXCEPT !.stack = <<Frame(l.ind, IF l.dash THEN "seq" ELSE "map", <<>>, {}, FALSE)>>], l)
    ELSE Place(PopTo(ResolvePending(st, l), l), l)

RECURSIVE ParseLines(_, _, _)
ParseLines(st, ls, i) ==
    IF i > Len(ls) THEN st ELSE ParseLines(ParseLine(st, ls[i]), ls, i + 1)

Significant(l) == ~IsBlank(l) /\ ~IsComment(l)

\* the value one document decodes to: err, or nil (no node), or a mapping
ParseDoc(ls) ==
    LET sig == SelectSeq(ls, Significant)
        st == ParseLines(ParseStart, sig, 1)
        ents == IF st.pend = "" THEN st.entries
                ELSE Append(st.entries, Entry(Append(Top(st).path, st.pend), "null", "", ""))
    IN IF sig = <<>> THEN [err |-> FALSE, nil |-> TRUE, entries |-> <<>>]
       ELSE IF st.err \/ st.stack[1].kind = "seq"
       THEN [err |-> TRUE, nil |-> FALSE, entries |-> <<>>]
       ELSE [err |-> FALSE, nil |-> FALSE, entries |-> ents]

\* the documents of a stream, split at "---"
RECURSIVE SplitDocs(_, _, _, _)
SplitDocs(text, i, cur, explicit) ==
    IF i > Len(text)
    THEN IF explicit \/ SelectSeq(cur, Significant) # <<>> THEN <<cur>> ELSE <<>>
    ELSE IF IsDocSep(text[i])
    THEN (IF explicit \/ SelectSeq(cur, Significant) # <<>> THEN <<cur>> ELSE <<>>)
         \o SplitDocs(text, i + 1, <<>>, TRUE)
    ELSE SplitDocs(text, i + 1, Append(cur, text[i]), explicit)

Docs(text) == SplitDocs(text, 1, <<>>, FALSE)

\* yaml.Unmarshal decodes the first document only
Unmarshal(text) ==
    IF Docs(text) = <<>> THEN [err |-> FALSE, nil |-> TRUE, entries |-> <<>>]
    ELSE ParseDoc(Docs(text)[1])

\* root[k...] lookups on the decoded mapping
Has(doc, path) == \E i \in DOMAIN doc.entries : doc.entries[i].path = path
Get(doc, path) ==
    doc.entries[CHOOSE i \in DOMAIN doc.entries : doc.entries[i].path = path]
NonNil(doc, path) == Has(doc, path) /\ Get(doc, path).kind # "null"
IsMap(doc, path) == Has(doc, path) /\ Get(doc, path).kind = "map"
\* the keys of the mapping at path, in declaration order
Children(doc, path) ==
    SelectSeq(doc.entries,
              LAMBDA e : Len(e.path) = Len(path) + 1 /\ SubSeq(e.path, 1, Len(path)) = path)

\* ---------------------------------------------------------------- autofix
\* WorkflowReport.HasConcurrency of the decoded mapping
hasConcurrency(root) ==
    IF root.nil THEN FALSE
    ELSE IF NonNil(root, <<"concurrency">>) THEN TRUE
    ELSE IF ~IsMap(root, <<"jobs">>) THEN FALSE
    ELSE \E i \in DOMAIN root.entries :
            LET e == root.entries[i]
            IN /\ Len(e.path) = 2 /\ e.path[1] = "jobs" /\ e.kind = "map"
               /\ NonNil(root, Append(e.path, "concurrency"))

\* strings.HasPrefix(strings.TrimSpace(line), k + ":")
TrimHasKeyPrefix(l, k) == ~l.dash /\ l.key = k

detectConcurrencyFallback(text) ==
    \E i \in DOMAIN text :
        /\ ~IsBlank(text[i])
        /\ ~IsComment(text[i])
        /\ TrimHasKeyPrefix(text[i], "concurrency")

concurrencyBlock == <<
    Blank,
    L(0, FALSE, "concurrency", "", ""),
    L(2, FALSE, "group", "${{ github.workflow }}-${{ github.ref }}", ""),
    L(2, FALSE, "cancel-in-progress", "true", "") >>

\* index of the first line with the key prefix, 0 when there is none
FirstLine(text, k) ==
    IF \E i \in DOMAIN text : TrimHasKeyPrefix(text[i], k)
    THEN CHOOSE i \in DOMAIN text :
            /\ TrimHasKeyPrefix(text[i], k)
            /\ \A j \in 1..(i - 1) : ~TrimHasKeyPrefix(text[j], k)
    ELSE 0

\* number of lines kept before the inserted block, -1 when there is no anchor
insertIdx(text) ==
    IF FirstLine(text, "name") # 0 THEN FirstLine(text, "name")
    ELSE IF FirstLine(text, "on") # 0 THEN FirstLine(text, "on") - 1
    ELSE -1

addConcurrencyBlock(content) ==
    IF insertIdx(content) = -1 THEN [text |-> content, changed |-> FALSE]
    ELSE [text |-> SubSeq(content, 1, insertIdx(content)) \o concurrencyBlock
                   \o SubSeq(content, insertIdx(content) + 1, Len(content)),
          changed |-> TRUE]

pins == [a \in {"actions/checkout", "actions/setup-go", "actions/setup-node",
                "actions/setup-python", "actions/cache", "actions/upload-artifact",
                "actions/download-artifact", "docker/setup-buildx-action",
                "docker/login-action", "docker/build-push-action"} |->
            CASE a = "actions/setup-go" -> "v5"
              [] a = "actions/setup-python" -> "v5"
              [] a = "docker/build-push-action" -> "v5"
              [] a = "docker/setup-buildx-action" -> "v3"
              [] a = "docker/login-action" -> "v3"
              [] OTHER -> "v4"]

\* group 2 written to accept any ref
pinAnyRefs == {"", "main", "master", "HEAD", "latest", "v3"}

\* group 2 written without its "?"
pinRefRequired == {"main", "master", "HEAD", "latest"}

\* the refs group 2 of reUnpinned accepts; "" is the absent group
pinMutableRefs == {"", "main", "master", "HEAD", "latest"}

\* reUnpinned of one action matches line i: whitespace before "uses:", the
\* action, an optional mutable ref, then whitespace or the end of the text.
\* A match ends with the newline of its line, so a following line that starts
\* at column 0 has no whitespace left to start a match with.
RECURSIVE reUnpinned(_, _, _)
reUnpinned(text, action, i) ==
    LET l == text[i]
    IN /\ l.key = "uses"
       /\ l.val = action
       /\ l.ref \in pinMutableRefs
       /\ \/ l.ind > 0
          \/ l.dash
          \/ i > 1 /\ ~reUnpinned(text, action, i - 1)

\* changed reported for every uses line of a known action, pinned or not
pinCommonActions_AnyKnown(content) ==
    LET hit(i) == content[i].val \in DOMAIN pins /\ reUnpinned(content, content[i].val, i)
    IN [text |-> [i \in DOMAIN content |->
                     IF hit(i) THEN [content[i] EXCEPT !.ref = pins[content[i].val]]
                     ELSE content[i]],
        changed |-> \E i \in DOMAIN content :
                        content[i].key = "uses" /\ content[i].val \in DOMAIN pins]

\* ReplaceAllString(result, "${1}@" + version + "${4}") for every action
pinCommonActions(content) ==
    LET hit(i) == content[i].val \in DOMAIN pins /\ reUnpinned(content, content[i].val, i)
    IN [text |-> [i \in DOMAIN content |->
                     IF hit(i) THEN [content[i] EXCEPT !.ref = pins[content[i].val]]
                     ELSE content[i]],
        changed |-> \E i \in DOMAIN content : hit(i)]

\* text mode that gives up on the concurrency block
applyTextFixes_PinOnly(content) == pinCommonActions(content)

applyTextFixes(content) ==
    LET c == IF ~detectConcurrencyFallback(content) THEN addConcurrencyBlock(content)
             ELSE [text |-> content, changed |-> FALSE]
        p == pinCommonActions(c.text)
    IN [text |-> IF p.changed THEN p.text ELSE c.text,
        changed |-> c.changed \/ p.changed]

applyAutoFixes(content) ==
    LET doc == Unmarshal(content)
        c == IF ~hasConcurrency(doc) THEN addConcurrencyBlock(content)
             ELSE [text |-> content, changed |-> FALSE]
        p == pinCommonActions(c.text)
    IN IF doc.err THEN applyTextFixes(content)
       ELSE [text |-> IF p.changed THEN p.text ELSE c.text,
             changed |-> c.changed \/ p.changed]

\* ------------------------------------------------------------- extraction
\* the characters of the texts, in byte order
Ascii == " #$'*+,-./0123456789:<=>@ABCDEFGHIJKLMNOPQRSTUVWXYZ[]_abcdefghijklmnopqrstuvwxyz{|}~"

Rank(c) == CHOOSE i \in 1..Len(Ascii) : SubSeq(Ascii, i, i) = c

\* a < b as Go compares strings
RECURSIVE Less(_, _)
Less(a, b) ==
    IF a = "" THEN b # ""
    ELSE IF b = "" THEN FALSE
    ELSE IF SubSeq(a, 1, 1) = SubSeq(b, 1, 1)
    THEN Less(SubSeq(a, 2, Len(a)), SubSeq(b, 2, Len(b)))
    ELSE Rank(SubSeq(a, 1, 1)) < Rank(SubSeq(b, 1, 1))

\* x put into the sorted sequence s, after the elements that are not greater
Insert(s, x) ==
    LET k == Cardinality({i \in DOMAIN s : ~Less(x, s[i])})
    IN SubSeq(s, 1, k) \o <<x>> \o SubSeq(s, k + 1, Len(s))

\* sort.Strings
RECURSIVE SortStrings(_)
SortStrings(s) ==
    IF s = <<>> THEN <<>>
    ELSE Insert(SortStrings(SubSeq(s, 1, Len(s) - 1)), s[Len(s)])

Range(s) == {s[i] : i \in DOMAIN s}

\* the keys of a set, appended in map order and then sorted
RECURSIVE SortedSet(_)
SortedSet(S) ==
    IF S = {} THEN <<>>
    ELSE LET x == CHOOSE y \in S : TRUE IN Insert(SortedSet(S \ {x}), x)

Last(p) == p[Len(p)]

\* the string elements of a list value: a flow list or a block sequence
StringItems(doc, path) ==
    LET e == Get(doc, path)
        kids == SelectSeq(Children(doc, path), LAMBDA c : c.kind = "scalar")
    IN IF e.kind = "list" THEN FlowItems(e.val)
       ELSE IF e.kind = "seq" THEN [i \in DOMAIN kids |-> kids[i].val]
       ELSE <<>>

extractTriggers(doc) ==
    LET p == <<"on">>
        kids == Children(doc, p)
    IN IF ~Has(doc, p) THEN <<>>
       ELSE IF Get(doc, p).kind = "scalar" THEN <<Get(doc, p).val>>
       ELSE IF Get(doc, p).kind \in {"list", "seq"} THEN SortStrings(StringItems(doc, p))
       ELSE IF Get(doc, p).kind = "map"
       THEN SortStrings([i \in DOMAIN kids |-> Last(kids[i].path)])
       ELSE <<>>

\* on.schedule[].cron, in declaration order
extractSchedules(doc) ==
    LET p == <<"on", "schedule">>
        items == SelectSeq(Children(doc, p), LAMBDA e : e.kind = "map")
        crons == SelectSeq(items,
                    LAMBDA e : /\ Has(doc, Append(e.path, "cron"))
                               /\ Get(doc, Append(e.path, "cron")).kind = "scalar")
    IN IF IsMap(doc, <<"on">>) /\ Has(doc, p) /\ Get(doc, p).kind = "seq"
       THEN [i \in DOMAIN crons |-> Get(doc, Append(crons[i].path, "cron")).val]
       ELSE <<>>

\* the job mappings under jobs, in declaration order
JobMaps(doc) ==
    IF IsMap(doc, <<"jobs">>)
    THEN SelectSeq(Children(doc, <<"jobs">>), LAMBDA e : e.kind = "map")
    ELSE <<>>

\* The orders a range over a Go map may take: one permutation of the
\* positions per call, chosen by the runtime.
IterOrders == Permutations(1..MaxJobs)

DeclOrder == [i \in 1..MaxJobs |-> i]

\* the orders that differ on a mapping of n keys
OrdersOf(n) == {o \in IterOrders : \A k \in (n + 1)..MaxJobs : o[k] = k}

\* for jname, jv := range jobs, taken in the order o
RangeJobs(doc, o) ==
    LET jobs == JobMaps(doc)
        idx == SelectSeq(o, LAMBDA k : k <= Len(jobs))
    IN [i \in DOMAIN idx |-> jobs[idx[i]]]

RECURSIVE Flatten(_)
Flatten(ss) == IF ss = <<>> THEN <<>> ELSE ss[1] \o Flatten(SubSeq(ss, 2, Len(ss)))

extractRunners(root) ==
    LET jobs == JobMaps(root)
        of(j) == LET p == Append(jobs[j].path, "runs-on")
                 IN IF ~Has(root, p) THEN {}
                    ELSE IF Get(root, p).kind = "scalar" THEN {Get(root, p).val}
                    ELSE Range(StringItems(root, p))
    IN SortedSet(UNION {of(j) : j \in DOMAIN jobs})

\* the docker:// prefix left out
isLocalAction_PathsOnly(u) == HasPrefix(u, "./") \/ HasPrefix(u, "../")

isLocalAction(u) ==
    HasPrefix(u, "./") \/ HasPrefix(u, "../") \/ HasPrefix(u, "docker://")

\* ^[^@]+@(main|master|HEAD|latest)$ on the reference val@ref
unpinnedRe(val, ref) == val # "" /\ ref \in {"main", "master", "HEAD", "latest"}

Detail(job, val, ref) == [job |-> job, val |-> val, ref |-> ref]

\* the flagged uses entries of the steps of one job, steps in declaration order
JobDetails(root, job) ==
    LET uses == SelectSeq(root.entries,
                    LAMBDA e : /\ Len(e.path) = 5
                               /\ SubSeq(e.path, 1, 2) = job.path
                               /\ e.path[3] = "steps"
                               /\ Get(root, SubSeq(e.path, 1, 3)).kind = "seq"
                               /\ IsMap(root, SubSeq(e.path, 1, 4))
                               /\ e.path[5] = "uses"
                               /\ e.kind = "scalar")
        flagged == SelectSeq(uses,
                    LAMBDA e : /\ ~isLocalAction(e.val)
                               /\ (e.ref = "" \/ unpinnedRe(e.val, e.ref)))
    IN [i \in DOMAIN flagged |-> Detail(flagged[i].path[2], flagged[i].val, flagged[i].ref)]

\* the details of the jobs, appended job by job in the order o of the range
\* over the jobs map
detectUnpinnedActions(root, o) ==
    LET jobs == RangeJobs(root, o)
    IN Flatten([j \in DOMAIN jobs |-> JobDetails(root, jobs[j])])

knownTriggers == <<"push", "pull_request", "pull_request_target", "workflow_dispatch",
                   "schedule", "release", "workflow_call">>

\* the trimmed text of a line
LineText(l) ==
    IF IsBlank(l) THEN ""
    ELSE IF IsDocSep(l) THEN "---"
    ELSE IF IsComment(l) THEN "# " \o l.val
    ELSE (IF l.dash THEN "- " ELSE "")
         \o (IF l.key = "" THEN "" ELSE l.key \o ":")
         \o (IF l.key # "" /\ l.val # "" THEN " " ELSE "")
         \o l.val \o (IF l.ref = "" THEN "" ELSE "@" \o l.ref)

\* index of the next line that is not blank, 0 when there is none
NextText(text, i) ==
    IF \E j \in (i + 1)..Len(text) : ~IsBlank(text[j])
    THEN CHOOSE j \in (i + 1)..Len(text) :
            ~IsBlank(text[j]) /\ \A k \in (i + 1)..(j - 1) : IsBlank(text[k])
    ELSE 0

\* ^\s*runs-on:\s*(.+)$ : the labels one matching line contributes
reRunsOnLine(text, i) ==
    LET l == text[i]
    IN IF l.dash \/ l.key # "runs-on" THEN {}
       ELSE IF l.val = ""
       THEN (IF NextText(text, i) = 0 THEN {} ELSE {LineText(text[NextText(text, i)])})
       ELSE IF HasPrefix(l.val, "[") THEN Range(FlowItems(l.val))
       ELSE {l.val \o (IF l.ref = "" THEN "" ELSE "@" \o l.ref)}

\* ^\s*-\s*([\w\-\.]+)\s*$ : a list item that is one word; "---" is one too
reRunsOnItem(l) ==
    IF IsDocSep(l) THEN {"--"}
    ELSE IF l.dash /\ l.key = "" /\ l.val # "" /\ l.ref = "" THEN {l.val}
    ELSE {}

\* ^\s*uses:\s*([^@\s]+)(?:@([^\s]+))?\s*$
reUses(l) == ~l.dash /\ l.key = "uses" /\ l.val # ""

\* the text up to the first quote
UpToQuote(v) ==
    LET at == {i \in 1..Len(v) : SubSeq(v, i, i) = "'"}
    IN IF at = {} THEN v
       ELSE SubSeq(v, 1, (CHOOSE i \in at : \A j \in at : i <= j) - 1)

\* cron:\s*['"]?([^'"\n]+)['"]? : what a cron key with a value captures,
\* list marker or not, at any indentation
reCron(l) ==
    IF l.key = "cron" /\ l.val # ""
    THEN <<TrimSpace(UpToQuote(IF HasPrefix(l.val, "'")
                               THEN SubSeq(l.val, 2, Len(l.val)) ELSE l.val))>>
    ELSE <<>>

HintUbuntu == "Consider ubuntu-24.04"
HintMacos == "macos-12 deprecated; use macos-13/14/15"
HintSelfHosted == "Ensure self-hosted runner labels are specific; add timeouts/concurrency"
HintSchedules == "Too many schedules; consider consolidation"
HintTriggers == "Many triggers; check for overlap with other workflows"

\* the hint for ubuntu-22.04 given for ubuntu-20.04 instead
detectDeprecated_Ubuntu20(w) ==
    Flatten([i \in DOMAIN w.Runners |->
                (IF w.Runners[i] = "ubuntu-20.04" THEN <<HintUbuntu>> ELSE <<>>)
                \o (IF w.Runners[i] = "macos-12" THEN <<HintMacos>> ELSE <<>>)
                \o (IF w.Runners[i] = "self-hosted" THEN <<HintSelfHosted>> ELSE <<>>)])
    \o (IF Len(w.Schedules) > 5 THEN <<HintSchedules>> ELSE <<>>)
    \o (IF Len(w.Triggers) > 5 THEN <<HintTriggers>> ELSE <<>>)

detectDeprecated(w) ==
    Flatten([i \in DOMAIN w.Runners |->
                (IF w.Runners[i] = "ubuntu-22.04" THEN <<HintUbuntu>> ELSE <<>>)
                \o (IF w.Runners[i] = "macos-12" THEN <<HintMacos>> ELSE <<>>)
                \o (IF w.Runners[i] = "self-hosted" THEN <<HintSelfHosted>> ELSE <<>>)])
    \o (IF Len(w.Schedules) > 5 THEN <<HintSchedules>> ELSE <<>>)
    \o (IF Len(w.Triggers) > 5 THEN <<HintTriggers>> ELSE <<>>)

\* the WorkflowReport of one extraction, with the mode and the index of the
\* selected document
Report(mode, doc, triggers, schedules, runners, conc, unp) ==
    LET w == [mode |-> mode, doc |-> doc, Triggers |-> triggers,
              Schedules |-> schedules, Runners |-> runners,
              HasConcurrency |-> conc, UsesUnpinnedAction |-> unp # <<>>,
              UnpinnedDetails |-> unp]
    IN [f \in DOMAIN w \cup {"DeprecatedHints"} |->
            IF f = "DeprecatedHints" THEN detectDeprecated(w) ELSE w[f]]

\* the WorkflowReport{} that goes with an error
analyzeWorkflowTextFallback_Empty(s) ==
    Report("fallback", 0, <<>>, <<>>, <<>>, FALSE, <<>>)

analyzeWorkflowTextFallback(s) ==
    LET trig == SelectSeq(knownTriggers,
                    LAMBDA k : \E i \in DOMAIN s : ~s[i].dash /\ s[i].key = k)
        set == UNION {reRunsOnLine(s, i) \cup reRunsOnItem(s[i]) : i \in DOMAIN s}
        uses == SelectSeq(s, reUses)
        unp == SelectSeq(uses,
                    LAMBDA l : /\ ~isLocalAction(l.val)
                               /\ (l.ref = "" \/ unpinnedRe(l.val, l.ref)))
    IN Report("fallback", 0, SortStrings(trig),
              Flatten([i \in DOMAIN s |-> reCron(s[i])]),
              SortedSet(set \ {""}),
              detectConcurrencyFallback(s),
              [i \in DOMAIN unp |-> Detail("", unp[i].val, unp[i].ref)])

\* the decoder loop: -1 when a document fails to decode, else the index of
\* the selected document, 0 when none was selected
RECURSIVE SelectDoc(_, _, _)
SelectDoc(docs, i, selected) ==
    IF i > Len(docs) THEN selected
    ELSE LET m == ParseDoc(docs[i])
         IN IF m.err THEN -1
            ELSE IF ~m.nil /\ (NonNil(m, <<"on">>) \/ NonNil(m, <<"jobs">>)) THEN i
            ELSE SelectDoc(docs, i + 1, IF selected = 0 /\ ~m.nil THEN i ELSE selected)

\* the number of jobs the range over the jobs map of a text visits
JobCount(text) ==
    LET k == SelectDoc(Docs(text), 1, 0)
    IN IF k < 1 THEN 0 ELSE Len(JobMaps(ParseDoc(Docs(text)[k])))

\* o is the order the range over the jobs map takes in this call
analyzeWorkflowFile(text, o) ==
    LET k == SelectDoc(Docs(text), 1, 0)
        selected == ParseDoc(Docs(text)[k])
    IN IF k < 1 THEN analyzeWorkflowTextFallback(text)
       ELSE Report("structured", k, extractTriggers(selected),
                   extractSchedules(selected), extractRunners(selected),
                   hasConcurrency(selected), detectUnpinnedActions(selected, o))

\* -------------------------------------------------------------------- diff
\* the loop bounded by the original's length: the added tail is not written
diffLines_NoAddedTail(origLines, fixedLines, i) ==
    IF i <= Len(origLines) /\ i <= Len(fixedLines)
    THEN IF origLines[i] # fixedLines[i]
         THEN <<<<"-", origLines[i]>>, <<"+", fixedLines[i]>>>>
         ELSE <<<<" ", origLines[i]>>>>
    ELSE IF i <= Len(origLines) THEN <<<<"-", origLines[i]>>>>
    ELSE <<>>

\* the added line written before the removed one
diffLines_AddedFirst(origLines, fixedLines, i) ==
    IF i <= Len(origLines) /\ i <= Len(fixedLines)
    THEN IF origLines[i] # fixedLines[i]
         THEN <<<<"+", fixedLines[i]>>, <<"-", origLines[i]>>>>
         ELSE <<<<" ", origLines[i]>>>>
    ELSE IF i <= Len(origLines) THEN <<<<"-", origLines[i]>>>>
    ELSE IF i <= Len(fixedLines) THEN <<<<"+", fixedLines[i]>>>>
    ELSE <<>>

\* what one index of the line-by-line loop writes
diffLines(origLines, fixedLines, i) ==
    IF i <= Len(origLines) /\ i <= Len(fixedLines)
    THEN IF origLines[i] # fixedLines[i]
         THEN <<<<"-", origLines[i]>>, <<"+", fixedLines[i]>>>>
         ELSE <<<<" ", origLines[i]>>>>
    ELSE IF i <= Len(origLines) THEN <<<<"-", origLines[i]>>>>
    ELSE IF i <= Len(fixedLines) THEN <<<<"+", fixedLines[i]>>>>
    ELSE <<>>

RECURSIVE diffBody(_, _, _)
diffBody(origLines, fixedLines, i) ==
    IF i > Len(origLines) /\ i > Len(fixedLines) THEN <<>>
    ELSE diffLines(origLines, fixedLines, i) \o diffBody(origLines, fixedLines, i + 1)

\* the lines of the patch: each is the written prefix and what follows it
generateUnifiedDiff(filename, origLines, fixedLines) ==
    << <<"--- a/", filename>>, <<"+++ b/", filename>>,
       <<"@@", <<Len(origLines), Len(fixedLines)>>>> >>
    \o diffBody(origLines, fixedLines, 1)

FileName == "ci.yml"

Init ==
    /\ file \in Texts
    /\ original = <<>>
    /\ fixed = <<>>
    /\ changed = FALSE
    /\ runs = 0
    /\ report = <<>>
    /\ patch = <<>>
    /\ dir = <<>>
    /\ env = <<>>
    /\ defrag = <<>>
    /\ autofix = <<>>

\* one repo-autofix run with --dry-run=false and --patch over the workflow file
RunAutofix ==
    /\ runs < MaxRuns
    /\ LET r == applyAutoFixes(file)
       IN /\ original' = file
          /\ fixed' = r.text
          /\ changed' = r.changed
          /\ file' = IF r.changed THEN r.text ELSE file
          /\ patch' = IF r.changed THEN generateUnifiedDiff(FileName, file, r.text)
                      ELSE <<>>
    /\ runs' = runs + 1
    /\ report' = <<>>
    /\ UNCHANGED <<dir, env, defrag, autofix>>

\* one repo-defrag analysis of the workflow file
AnalyzeWorkflowFile ==
    /\ report = <<>>
    /\ \E o \in OrdersOf(JobCount(file)) : report' = <<analyzeWorkflowFile(file, o)>>
    /\ UNCHANGED <<file, original, fixed, changed, runs, patch>>
    /\ UNCHANGED <<dir, env, defrag, autofix>>

Next == RunAutofix \/ AnalyzeWorkflowFile

Spec == Init /\ [][Next]_vars

\* ------------------------------------------- the diff generator on any pair
DiffAlphabet == {Blank, L(0, FALSE, "name", "CI", ""), L(6, TRUE, "uses", "actions/checkout", "")}

RECURSIVE SeqsUpTo(_, _)
SeqsUpTo(S, n) ==
    IF n = 0 THEN {<<>>}
    ELSE SeqsUpTo(S, n - 1) \cup
         {Append(t, x) : t \in {u \in SeqsUpTo(S, n - 1) : Len(u) = n - 1}, x \in S}

DiffTexts == SeqsUpTo(DiffAlphabet, MaxDiffLen) \ {<<>>}

InitDiff ==
    /\ original \in DiffTexts
    /\ fixed \in DiffTexts
    /\ file = original
    /\ changed = (original # fixed)
    /\ runs = 0
    /\ report = <<>>
    /\ patch = <<>>
    /\ dir = <<>>
    /\ env = <<>>
    /\ defrag = <<>>
    /\ autofix = <<>>

GenerateDiff ==
    /\ patch = <<>>
    /\ patch' = generateUnifiedDiff(FileName, original, fixed)
    /\ UNCHANGED <<file, original, fixed, changed, runs, report>>
    /\ UNCHANGED <<dir, env, defrag, autofix>>

NextDiff == GenerateDiff

SpecDiff == InitDiff /\ [][NextDiff]_vars

\* ------------------------------------- the extractor on whole workflows
Digits == <<"0", "1", "2", "3", "4", "5", "6", "7", "8", "9">>

\* quoted cron expressions, one per minute
CronExprs == [i \in 1..(MaxCrons + 1) |-> "'" \o Digits[i] \o " 0 * * *'"]

\* k list items under schedule, all with one expression or each with its own
CronLines(k, same) ==
    [i \in 1..k |-> L(4, TRUE, "cron", CronExprs[IF same THEN 1 ELSE i], "")]

OnTexts ==
    {<<>>,
     <<L(0, FALSE, "on", "push", "")>>,
     <<L(0, FALSE, "on", "[push, push]", "")>>,
     <<L(0, FALSE, "on", "[push, push, push, push, push, push]", "")>>,
     <<L(0, FALSE, "on",
         "[push, pull_request, release, schedule, workflow_call, workflow_dispatch]", "")>>,
     <<L(0, FALSE, "on", "", ""), L(2, FALSE, "push", "", ""),
       L(2, FALSE, "pull_request", "", ""), L(2, FALSE, "release", "", ""),
       L(2, FALSE, "workflow_call", "", ""), L(2, FALSE, "workflow_dispatch", "", ""),
       L(2, FALSE, "schedule", "", "")>>}
    \cup {<<L(0, FALSE, "on", "", ""), L(2, FALSE, "push", "", ""),
             L(2, FALSE, "schedule", "", "")>> \o CronLines(k, same) :
                k \in 1..MaxCrons, same \in BOOLEAN}

ConcurrencyTexts ==
    {<<>>,
     <<L(0, FALSE, "concurrency", "ci", "")>>,
     <<L(0, FALSE, "concurrency", "", "")>>,
     <<L(0, FALSE, "concurrency", "", ""), L(2, FALSE, "group", "ci", "")>>}

\* the jobs a workflow is written from
JobTexts(name) ==
    {<<L(2, FALSE, name, "", ""),
       L(4, FALSE, "runs-on", "ubuntu-22.04", ""),
       L(4, FALSE, "steps", "", ""),
       L(6, TRUE, "uses", "actions/checkout", "")>>,
     <<L(2, FALSE, name, "", ""),
       L(4, FALSE, "runs-on", "ubuntu-22.04", ""),
       L(4, FALSE, "concurrency", name, ""),
       L(4, FALSE, "steps", "", ""),
       L(6, TRUE, "uses", "actions/checkout", "v4")>>,
     <<L(2, FALSE, name, "", ""),
       L(4, FALSE, "steps", "", ""),
       L(6, TRUE, "name", "Setup", ""),
       L(8, FALSE, "uses", "actions/setup-go", "main"),
       L(8, FALSE, "concurrency", "step", "")>>,
     <<L(2, FALSE, name, "", ""),
       L(4, FALSE, "runs-on", "[self-hosted, macos-12]", "")>>}

JobNames == <<"build", "test", "deploy", "lint">>

RECURSIVE JobsTexts(_)
JobsTexts(n) ==
    IF n = 0 THEN {<<>>}
    ELSE JobsTexts(n - 1) \cup
         {js \o j : js \in JobsTexts(n - 1), j \in JobTexts(JobNames[n])}

WorkflowTexts ==
    {<<Comment>>, <<Blank>>, <<Comment, Blank>>, <<L(0, FALSE, "name", "CI", "")>>} \cup
    ({o \o c \o (IF j = <<>> THEN <<>> ELSE <<L(0, FALSE, "jobs", "", "")>> \o j) \o m :
        o \in OnTexts,
        c \in ConcurrencyTexts,
        j \in JobsTexts(MaxJobs),
        m \in {<<>>, <<L(4, FALSE, "run", "'oops", "")>>}} \ {<<>>})

InitExtract ==
    /\ file \in WorkflowTexts
    /\ original = <<>>
    /\ fixed = <<>>
    /\ changed = FALSE
    /\ runs = 0
    /\ report = <<>>
    /\ patch = <<>>
    /\ dir = <<>>
    /\ env = <<>>
    /\ defrag = <<>>
    /\ autofix = <<>>

NextExtract == AnalyzeWorkflowFile

SpecExtract == InitExtract /\ [][NextExtract]_vars

\* --------------------------------------------- the workflows directory
\* A file's LastModified is <<>> when the history lookup failed, else <<age>>,
\* the whole days between the commit and the run; the threshold is
\* daysStale whole days.
defragDaysStale == 1

Histories == {<<>>} \cup {<<a>> : a \in 1..MaxAge}

With(w, f, v) == [g \in DOMAIN w \cup {f} |-> IF g = f THEN v ELSE w[g]]

RecStale == "Stale: review necessity or update tooling pins"
RecPin == "Pin actions to specific tags or SHAs"
RecConcurrency == "Add 'concurrency' to avoid duplicate runs on busy repos"
RecRunsOn == "Specify runs-on for each job explicitly"

\* a missing LastModified taken for a stale one
IsStale_NoHistory(w, daysStale) == w.LastModified = <<>> \/ w.LastModified[1] > daysStale

\* w.LastModified != nil && time.Since(*w.LastModified) > daysStale days
IsStale(w, daysStale) == w.LastModified # <<>> /\ w.LastModified[1] > daysStale

\* the runs-on rule written as the else branch of the concurrency rule
recommendForWorkflow_ElseRunsOn(w, daysStale) ==
    (IF IsStale(w, daysStale) THEN <<RecStale>> ELSE <<>>)
    \o (IF w.UsesUnpinnedAction THEN <<RecPin>> ELSE <<>>)
    \o (IF ~w.HasConcurrency THEN <<RecConcurrency>>
         ELSE IF Len(w.Runners) = 0 THEN <<RecRunsOn>> ELSE <<>>)

recommendForWorkflow(w, daysStale) ==
    (IF IsStale(w, daysStale) THEN <<RecStale>> ELSE <<>>)
    \o (IF w.UsesUnpinnedAction THEN <<RecPin>> ELSE <<>>)
    \o (IF ~w.HasConcurrency THEN <<RecConcurrency>> ELSE <<>>)
    \o (IF Len(w.Runners) = 0 THEN <<RecRunsOn>> ELSE <<>>)

\* the scan loop after the analysis: wr.LastModified, wr.Recommendations
annotate(w, name, lastModified, daysStale) ==
    LET wr == With(With(w, "File", name), "LastModified", lastModified)
    IN With(wr, "Recommendations", recommendForWorkflow(wr, daysStale))

\* the body of the scan loop for one readable workflow file
scanWorkflow(name, text, o, lastModified, daysStale) ==
    annotate(analyzeWorkflowFile(text, o), name, lastModified, daysStale)

DirEntry(name, isDir, text) == [name |-> name, isDir |-> isDir, text |-> text]

IsWorkflowName(name) == HasSuffix(name, ".yml") \/ HasSuffix(name, ".yaml")

\* the entries the loops do not skip
WorkflowFiles(d) ==
    {i \in DOMAIN d : ~d[i].isDir /\ IsWorkflowName(d[i].name)}

\* sort.Slice(out, File <)
RECURSIVE SortByFile(_)
SortByFile(out) ==
    IF out = <<>> THEN <<>>
    ELSE LET rest == SortByFile(SubSeq(out, 1, Len(out) - 1))
             x == out[Len(out)]
             k == Cardinality({i \in DOMAIN rest : ~Less(x.File, rest[i].File)})
         IN SubSeq(rest, 1, k) \o <<x>> \o SubSeq(rest, k + 1, Len(rest))

\* the scan given up at the first file that cannot be read
scanWorkflows_Abort(d, e, daysStale) ==
    IF ~e.listable \/ \E i \in WorkflowFiles(d) : ~e.readable[i]
    THEN [err |-> TRUE, out |-> <<>>]
    ELSE [err |-> FALSE,
          out |-> SortByFile(Flatten([i \in DOMAIN d |->
                    IF i \in WorkflowFiles(d)
                    THEN <<scanWorkflow(d[i].name, d[i].text, e.orders[i],
                                        e.history[i], daysStale)>>
                    ELSE <<>>]))]

\* the reports returned in the order the entries were visited
scanWorkflows_Unsorted(d, e, daysStale) ==
    IF ~e.listable THEN [err |-> TRUE, out |-> <<>>]
    ELSE [err |-> FALSE,
          out |-> Flatten([i \in DOMAIN d |->
                    IF i \in WorkflowFiles(d) /\ e.readable[i]
                    THEN <<scanWorkflow(d[i].name, d[i].text, e.orders[i],
                                        e.history[i], daysStale)>>
                    ELSE <<>>])]

\* e: what the file system and the history lookup answer during the run
scanWorkflows(d, e, daysStale) ==
    IF ~e.listable THEN [err |-> TRUE, out |-> <<>>]
    ELSE [err |-> FALSE,
          out |-> SortByFile(Flatten([i \in DOMAIN d |->
                    IF i \in WorkflowFiles(d) /\ e.readable[i]
                    THEN <<scanWorkflow(d[i].name, d[i].text, e.orders[i],
                                        e.history[i], daysStale)>>
                    ELSE <<>>]))]

\* the concurrency counter fed by the workflows that have concurrency
Summarize_WithConcurrency(ws, daysStale) ==
    [WorkflowCount |-> Len(ws),
     WorkflowsStale |-> Cardinality({i \in DOMAIN ws : IsStale(ws[i], daysStale)}),
     WorkflowsWithUnpinned |-> Cardinality({i \in DOMAIN ws : ws[i].UsesUnpinnedAction}),
     WorkflowsWithoutConcurrency |-> Cardinality({i \in DOMAIN ws : ws[i].HasConcurrency})]

Summarize(ws, daysStale) ==
    [WorkflowCount |-> Len(ws),
     WorkflowsStale |-> Cardinality({i \in DOMAIN ws : IsStale(ws[i], daysStale)}),
     WorkflowsWithUnpinned |-> Cardinality({i \in DOMAIN ws : ws[i].UsesUnpinnedAction}),
     WorkflowsWithoutConcurrency |-> Cardinality({i \in DOMAIN ws : ~ws[i].HasConcurrency})]

GitHubReport == [Owner |-> "owner", Repo |-> "repo"]

\* the report built from the result of the scan: summary and enrichment
RepoDefragReport(scan, e) ==
    IF scan.err
    THEN [err |-> TRUE, Workflows |-> <<>>, Summary |-> Summarize(<<>>, defragDaysStale),
          GitHub |-> <<>>]
    ELSE [err |-> FALSE, Workflows |-> scan.out,
          Summary |-> Summarize(scan.out, defragDaysStale),
          GitHub |-> IF e.enrich = "succeeds" THEN <<GitHubReport>> ELSE <<>>]

\* a failed enrichment returned to the caller as the error of the run
runRepoDefrag_EnrichFatal(d, e) ==
    IF e.enrich = "fails"
    THEN [err |-> TRUE, Workflows |-> <<>>, Summary |-> Summarize(<<>>, defragDaysStale),
          GitHub |-> <<>>]
    ELSE RepoDefragReport(scanWorkflows(d, e, defragDaysStale), e)

\* the run without --json, --md and --plan: the report it builds
runRepoDefrag(d, e) == RepoDefragReport(scanWorkflows(d, e, defragDaysStale), e)

\* the fixed text written whatever --dry-run says
autofixEntry_WriteAlways(d, e, i, acc, r) ==
    IF i \notin WorkflowFiles(d) THEN acc
    ELSE IF ~e.readable[i] \/ ~r.changed
    THEN [acc EXCEPT !.read = @ \cup {i}]
    ELSE IF ~e.writable[i]
    THEN [acc EXCEPT !.read = @ \cup {i}, !.fixCount = @ + 1]
    ELSE [dir |-> [acc.dir EXCEPT ![i].text = r.text],
          read |-> acc.read \cup {i},
          written |-> acc.written \cup {i},
          fixCount |-> acc.fixCount + 1,
          allPatches |-> IF e.patchOut
                         THEN Append(acc.allPatches,
                                 generateUnifiedDiff(d[i].name, d[i].text, r.text))
                         ELSE acc.allPatches]

\* a patch entry made for every file that was read, changed or not
autofixEntry_PatchUnchanged(d, e, i, acc, r) ==
    IF i \notin WorkflowFiles(d) THEN acc
    ELSE IF ~e.readable[i]
    THEN [acc EXCEPT !.read = @ \cup {i}]
    ELSE IF ~r.changed
    THEN [acc EXCEPT !.read = @ \cup {i},
                     !.allPatches = IF e.patchOut
                                    THEN Append(@, generateUnifiedDiff(d[i].name, d[i].text,
                                                                       r.text))
                                    ELSE @]
    ELSE IF ~e.dryRun /\ ~e.writable[i]
    THEN [acc EXCEPT !.read = @ \cup {i}, !.fixCount = @ + 1]
    ELSE [dir |-> IF ~e.dryRun THEN [acc.dir EXCEPT ![i].text = r.text]
                  ELSE acc.dir,
          read |-> acc.read \cup {i},
          written |-> IF ~e.dryRun THEN acc.written \cup {i} ELSE acc.written,
          fixCount |-> acc.fixCount + 1,
          allPatches |-> IF e.patchOut
                         THEN Append(acc.allPatches,
                                 generateUnifiedDiff(d[i].name, d[i].text, r.text))
                         ELSE acc.allPatches]

\* one pass of the loop of runRepoAutofix over entry i, r being what
\* applyAutoFixes returned for it; acc is the directory as written so far,
\* the entries os.ReadFile and a successful os.WriteFile were called on,
\* fixCount and allPatches
autofixEntry(d, e, i, acc, r) ==
    IF i \notin WorkflowFiles(d) THEN acc
    ELSE IF ~e.readable[i] \/ ~r.changed
    THEN [acc EXCEPT !.read = @ \cup {i}]
    ELSE IF ~e.dryRun /\ ~e.writable[i]
    THEN [acc EXCEPT !.read = @ \cup {i}, !.fixCount = @ + 1]
    ELSE [dir |-> IF ~e.dryRun THEN [acc.dir EXCEPT ![i].text = r.text]
                  ELSE acc.dir,
          read |-> acc.read \cup {i},
          written |-> IF ~e.dryRun THEN acc.written \cup {i} ELSE acc.written,
          fixCount |-> acc.fixCount + 1,
          allPatches |-> IF e.patchOut
                         THEN Append(acc.allPatches,
                                 generateUnifiedDiff(d[i].name, d[i].text, r.text))
                         ELSE acc.allPatches]

\* the loop of runRepoAutofix from entry i on
RECURSIVE autofixLoop(_, _, _, _)
autofixLoop(d, e, i, acc) ==
    IF i > Len(d) THEN acc
    ELSE autofixLoop(d, e, i + 1,
            autofixEntry(d, e, i, acc, applyAutoFixes(d[i].text)))

\* what the command returns once the loop has ended
autofixReturn(d, e, acc) ==
    IF ~e.listable
    THEN [err |-> TRUE, dir |-> d, read |-> {}, written |-> {}, fixCount |-> 0,
          allPatches |-> <<>>]
    ELSE [err |-> e.patchOut /\ acc.allPatches # <<>> /\ ~e.patchWritable,
          dir |-> acc.dir, read |-> acc.read, written |-> acc.written,
          fixCount |-> acc.fixCount, allPatches |-> acc.allPatches]

runRepoAutofix(d, e) ==
    autofixReturn(d, e,
        autofixLoop(d, e, 1, [dir |-> d, read |-> {}, written |-> {}, fixCount |-> 0,
                              allPatches |-> <<>>]))

BatchTexts ==
    {<<L(0, FALSE, "on", "[push]", ""), L(0, FALSE, "jobs", "", ""),
       L(2, FALSE, "build", "", ""), L(4, FALSE, "runs-on", "ubuntu-22.04", ""),
       L(4, FALSE, "steps", "", ""), L(6, TRUE, "uses", "actions/checkout", "")>>,
     <<L(0, FALSE, "name", "CI", ""), L(0, FALSE, "on", "push", ""),
       L(0, FALSE, "concurrency", "ci", ""), L(0, FALSE, "jobs", "", ""),
       L(2, FALSE, "build", "", ""), L(4, FALSE, "runs-on", "ubuntu-24.04", ""),
       L(4, FALSE, "steps", "", ""), L(6, TRUE, "uses", "actions/checkout", "v4")>>,
     <<L(0, FALSE, "name", "CI", ""), L(4, FALSE, "run", "'oops", "")>>}

\* os.ReadDir lists the entries sorted by filename
Listings ==
    {a \o b \o x :
        a \in {<<>>} \cup {<<DirEntry("a.yml", FALSE, t)>> : t \in BatchTexts},
        b \in {<<>>} \cup {<<DirEntry("b.yaml", FALSE, t)>> : t \in BatchTexts},
        x \in {<<>>, <<DirEntry("notes.txt", FALSE, <<Blank>>),
                       DirEntry("sub.yml", TRUE, <<>>)>>}}

\* the answers of the file system, the history lookup and the GitHub API
Envs(d) ==
    [listable : {TRUE},
     readable : [WorkflowFiles(d) -> BOOLEAN],
     history : [WorkflowFiles(d) -> Histories],
     orders : {f \in [WorkflowFiles(d) -> IterOrders] :
                    \A i \in WorkflowFiles(d) : f[i] \in OrdersOf(JobCount(d[i].text))},
     writable : [WorkflowFiles(d) -> {TRUE}],
     enrich : {"disabled", "fails", "succeeds"},
     dryRun : {TRUE}, patchOut : {FALSE}, patchWritable : {TRUE}]
    \cup
    [listable : {FALSE},
     readable : [WorkflowFiles(d) -> {TRUE}],
     history : [WorkflowFiles(d) -> {<<>>}],
     orders : [WorkflowFiles(d) -> {DeclOrder}],
     writable : [WorkflowFiles(d) -> {TRUE}],
     enrich : {"disabled"},
     dryRun : {TRUE}, patchOut : {FALSE}, patchWritable : {TRUE}]

AutofixEnvs(d) ==
    [listable : {TRUE},
     readable : [WorkflowFiles(d) -> BOOLEAN],
     history : [WorkflowFiles(d) -> {<<>>}],
     orders : [WorkflowFiles(d) -> {DeclOrder}],
     writable : [WorkflowFiles(d) -> BOOLEAN],
     enrich : {"disabled"},
     dryRun : {FALSE}, patchOut : BOOLEAN, patchWritable : {TRUE}]
    \cup
    [listable : {TRUE},
     readable : [WorkflowFiles(d) -> BOOLEAN],
     history : [WorkflowFiles(d) -> {<<>>}],
     orders : [WorkflowFiles(d) -> {DeclOrder}],
     writable : [WorkflowFiles(d) -> {TRUE}],
     enrich : {"disabled"},
     dryRun : {TRUE}, patchOut : BOOLEAN, patchWritable : {TRUE}]
    \cup
    [listable : BOOLEAN,
     readable : [WorkflowFiles(d) -> {TRUE}],
     history : [WorkflowFiles(d) -> {<<>>}],
     orders : [WorkflowFiles(d) -> {DeclOrder}],
     writable : [WorkflowFiles(d) -> {TRUE}],
     enrich : {"disabled"},
     dryRun : {FALSE}, patchOut : {TRUE}, patchWritable : {FALSE}]

InitBatch ==
    /\ dir \in Listings
    /\ env = <<>>
    /\ defrag = <<>>
    /\ autofix = <<>>
    /\ file = <<>>
    /\ original = <<>>
    /\ fixed = <<>>
    /\ changed = FALSE
    /\ runs = 0
    /\ report = <<>>
    /\ patch = <<>>

\* one run of the repo-defrag command over the directory as it was listed
RunRepoDefrag ==
    /\ defrag = <<>>
    /\ autofix = <<>>
    /\ \E e \in Envs(dir) :
          /\ env' = <<e>>
          /\ defrag' = <<runRepoDefrag(dir, e)>>
    /\ autofix' = <<>>
    /\ UNCHANGED <<dir, file, original, fixed, changed, runs, report, patch>>

\* one run of the repo-autofix command over the directory; it may be run
\* again over what it wrote
RunRepoAutofix ==
    /\ runs < MaxRuns
    /\ defrag = <<>>
    /\ \E e \in AutofixEnvs(dir) :
          /\ env' = <<e>>
          /\ autofix' = <<runRepoAutofix(dir, e)>>
          /\ dir' = autofix'[1].dir
    /\ runs' = runs + 1
    /\ defrag' = <<>>
    /\ UNCHANGED <<file, original, fixed, changed, report, patch>>

NextBatch == RunRepoDefrag \/ RunRepoAutofix

SpecBatch == InitBatch /\ [][NextBatch]_vars

\* ------------------------------------------ the scan loop on one workflow
\* one pass of the scan loop over the workflow file
ScanWorkflow ==
    /\ report = <<>>
    /\ \E o \in OrdersOf(JobCount(file)), lm \in Histories :
          report' = <<scanWorkflow(FileName, file, o, lm, defragDaysStale)>>
    /\ UNCHANGED <<file, original, fixed, changed, runs, patch>>
    /\ UNCHANGED <<dir, env, defrag, autofix>>

InitScan ==
    /\ InitExtract
    /\ \A i \in DOMAIN file : file[i].key # "cron"

NextScan == ScanWorkflow

SpecScan == InitScan /\ [][NextScan]_vars

\* ------------------------------------- the extractor on texts it cannot decode
\* the on section: none, a scalar, a mapping with a branch filter
FallbackOnTexts ==
    {<<>>,
     <<L(0, FALSE, "on", "push", "")>>,
     <<L(0, FALSE, "on", "", ""), L(2, FALSE, "push", "", ""),
       L(4, FALSE, "branches", "", ""),
       L(6, TRUE, "", "main", ""), L(6, TRUE, "", "release-1.x", "")>>}

\* runs-on of the job: none, a scalar, a bracketed list, a block list
FallbackRunsOnTexts ==
    {<<>>,
     <<L(4, FALSE, "runs-on", "ubuntu-22.04", "")>>,
     <<L(4, FALSE, "runs-on", "[self-hosted, macos-12]", "")>>,
     <<L(4, FALSE, "runs-on", "", ""),
       L(6, TRUE, "", "self-hosted", ""), L(6, TRUE, "", "linux", "")>>}

\* a step with uses: on the line of the list marker, or below a name: line
StepForms(val, ref) ==
    {<<L(6, TRUE, "uses", val, ref)>>,
     <<L(6, TRUE, "name", "Setup", ""), L(8, FALSE, "uses", val, ref)>>}

FirstSteps ==
    UNION ({StepForms("actions/checkout", r) :
                r \in {"", "main", "master", "HEAD", "latest", "v4"}}
           \cup {StepForms("./local", ""), StepForms("docker://alpine", "latest")})

MoreSteps ==
    {<<L(6, TRUE, "uses", "actions/setup-go", "main")>>,
     <<L(6, TRUE, "name", "Go", ""), L(8, FALSE, "uses", "actions/setup-go", "v5")>>}

RECURSIVE StepsTexts(_)
StepsTexts(n) ==
    IF n = 0 THEN {<<>>}
    ELSE IF n = 1 THEN {<<>>} \cup FirstSteps
    ELSE StepsTexts(n - 1) \cup
         {s \o t : s \in StepsTexts(n - 1) \ StepsTexts(n - 2), t \in MoreSteps}

\* workflows with one job that end in a line the decoder gives up on
FallbackTexts ==
    {o \o <<L(0, FALSE, "jobs", "", ""), L(2, FALSE, "build", "", "")>> \o r
       \o (IF s = <<>> THEN <<>> ELSE <<L(4, FALSE, "steps", "", "")>> \o s)
       \o <<L(4, FALSE, "run", "'oops", "")>> :
        o \in FallbackOnTexts, r \in FallbackRunsOnTexts, s \in StepsTexts(MaxSteps)}

InitFallback ==
    /\ file \in FallbackTexts
    /\ original = <<>>
    /\ fixed = <<>>
    /\ changed = FALSE
    /\ runs = 0
    /\ report = <<>>
    /\ patch = <<>>
    /\ dir = <<>>
    /\ env = <<>>
    /\ defrag = <<>>
    /\ autofix = <<>>

NextFallback == AnalyzeWorkflowFile

SpecFallback == InitFallback /\ [][NextFallback]_vars

\* ------------------------------------------------------------ properties
InsertedBlock == Len(fixed) = Len(original) + Len(concurrencyBlock)

MutableRef(r) == r \in {"main", "master", "HEAD", "latest"}

UsesLines(t) == SelectSeq(t, LAMBDA l : l.key = "uses")

HasSep(t) == \E i \in DOMAIN t : IsDocSep(t[i])

\* C1: a second autofix run over the text the first run produced changes
\* nothing: it reports changed = false and returns that text as it is.
C1_Idempotent == runs >= 2 => (~changed /\ fixed = original)

\* the lines of a patch body a reader keeps: context and added lines
KeptLines(p) ==
    LET body == SelectSeq(SubSeq(p, 4, Len(p)), LAMBDA d : d[1] \in {" ", "+"})
    IN [i \in DOMAIN body |-> body[i][2]]

\* C2: keeping the context and added lines of the diff body, in order, and
\* dropping the removed ones gives exactly the lines of the fixed text.
C2_RoundTrip == patch # <<>> => KeptLines(patch) = fixed

C2_Witness ==
    /\ patch # <<>>
    /\ Len(original) > Len(fixed)
    /\ Len(fixed) >= 2
    /\ original[1] # fixed[1]
    /\ original[2] = fixed[2]

PinnedLine(l) == l.key = "uses" /\ l.ref # "" /\ ~MutableRef(l.ref)

\* C3: every uses line pinned to a ref other than main/master/HEAD/latest is
\* in the fixed text exactly as it was, also for an action of the pin table.
C3_PinnedKept ==
    runs >= 1 =>
        /\ Len(UsesLines(fixed)) = Len(UsesLines(original))
        /\ \A i \in DOMAIN UsesLines(original) :
                PinnedLine(UsesLines(original)[i]) =>
                    UsesLines(fixed)[i] = UsesLines(original)[i]

C3_Witness ==
    /\ runs >= 1
    /\ changed
    /\ \E i \in DOMAIN original :
          /\ original[i].val = "actions/checkout" /\ original[i].ref = "v3"
    /\ \E i \in DOMAIN original :
          /\ original[i].val = "actions/checkout" /\ original[i].ref = ""
    /\ \E i \in DOMAIN fixed :
          /\ fixed[i].val = "actions/checkout" /\ fixed[i].ref = "v4"

RecommendedVersion(a) ==
    CASE a = "actions/checkout" -> "v4"
      [] a = "actions/setup-go" -> "v5"
      [] a = "actions/setup-node" -> "v4"
      [] a = "actions/setup-python" -> "v5"
      [] OTHER -> ""

Pinnable(l) ==
    /\ l.key = "uses"
    /\ RecommendedVersion(l.val) # ""
    /\ (l.ref = "" \/ MutableRef(l.ref))

\* C4: one fix call rewrites every bare or mutably pinned reference to an
\* action of the pin table into action@recommendedVersion, and reports
\* changed = true when there is at least one.
C4_AllPinned ==
    runs >= 1 =>
        LET uo == UsesLines(original)
            uf == UsesLines(fixed)
        IN /\ Len(uf) = Len(uo)
           /\ \A i \in DOMAIN uo :
                Pinnable(uo[i]) =>
                    uf[i] = [uo[i] EXCEPT !.ref = RecommendedVersion(uo[i].val)]
           /\ (\E i \in DOMAIN uo : Pinnable(uo[i])) => changed

C4_Witness ==
    /\ runs = 1
    /\ changed
    /\ \E i \in DOMAIN original :
          /\ original[i].val = "actions/checkout" /\ original[i].ref = ""
    /\ \E i \in DOMAIN original :
          /\ original[i].val = "actions/setup-go" /\ original[i].ref = "main"
    /\ \E i \in DOMAIN fixed :
          /\ fixed[i].val = "actions/setup-go" /\ fixed[i].ref = "v5"

LocalRef(v) == v \in {"./local", "docker://alpine"}

\* C5: under the mapping walk and under the text fallback alike, a reference
\* that starts with ./, ../ or docker:// is never in the unpinned list and
\* never sets UsesUnpinnedAction, with or without an @ref.
C5_LocalNeverFlagged ==
    report # <<>> =>
        \A r \in {report[1], analyzeWorkflowTextFallback(file)} :
            /\ \A i \in DOMAIN r.UnpinnedDetails : ~LocalRef(r.UnpinnedDetails[i].val)
            /\ (\A i \in DOMAIN file : file[i].key = "uses" => LocalRef(file[i].val))
                    => ~r.UsesUnpinnedAction

C5_Witness ==
    /\ report # <<>>
    /\ report[1].mode = "structured"
    /\ IsMap(ParseDoc(file), <<"jobs", "build", "steps", "#1">>)
    /\ \E i \in DOMAIN file :
          /\ file[i].val = "docker://alpine" /\ file[i].ref = "latest"
    /\ ~report[1].UsesUnpinnedAction

Facts(r) ==
    [triggers |-> Range(r.Triggers), runners |-> Range(r.Runners),
     hasConcurrency |-> r.HasConcurrency,
     unpinned |-> {<<r.UnpinnedDetails[i].val, r.UnpinnedDetails[i].ref>> :
                        i \in DOMAIN r.UnpinnedDetails}]

WellFormed(t) ==
    /\ ~HasSep(t)
    /\ ~Unmarshal(t).err
    /\ NonNil(Unmarshal(t), <<"on">>)
    /\ JobMaps(Unmarshal(t)) # <<>>

\* C6: for a well-formed workflow document the mapping walk and the text
\* fallback give the same trigger set, runner set, concurrency flag and set
\* of unpinned references.
C6_ModesAgree ==
    (report # <<>> /\ report[1].mode = "structured" /\ WellFormed(file)) =>
        Facts(report[1]) = Facts(analyzeWorkflowTextFallback(file))

HasWorkflowKey(d) == Has(d, <<"on">>) \/ Has(d, <<"jobs">>)

FirstWhere(docs, P(_)) ==
    IF \E i \in DOMAIN docs : P(ParseDoc(docs[i]))
    THEN CHOOSE i \in DOMAIN docs :
            P(ParseDoc(docs[i])) /\ \A j \in 1..(i - 1) : ~P(ParseDoc(docs[j]))
    ELSE 0

ExpectedDoc(docs) ==
    IF FirstWhere(docs, HasWorkflowKey) # 0 THEN FirstWhere(docs, HasWorkflowKey)
    ELSE FirstWhere(docs, LAMBDA d : ~d.err /\ ~d.nil)

\* C7: the analysed document is the first one, in file order, whose top-level
\* mapping has an on or a jobs key, and the first mapping document when no
\* document has either key.
C7_Selection ==
    (report # <<>> /\ report[1].mode = "structured") =>
        report[1].doc = ExpectedDoc(Docs(file))

\* C8: a text whose extracted facts show concurrency gets no concurrency
\* block inserted by fix.
C8_NoInsertWhenConcurrent ==
    (runs >= 1 /\ analyzeWorkflowFile(original, DeclOrder).HasConcurrency) => ~InsertedBlock

\* the indentation of the root mapping of the document line i belongs to
RootIndent(t, i) ==
    LET seps == {j \in 1..(i - 1) : IsDocSep(t[j])}
        start == IF seps = {} THEN 1
                 ELSE 1 + CHOOSE j \in seps : \A k \in seps : k <= j
        sig == {j \in start..i : Significant(t[j])}
    IN t[CHOOSE j \in sig : \A k \in sig : j <= k].ind

TopLevelKey(t, i, k) ==
    /\ ~t[i].dash
    /\ t[i].key = k
    /\ t[i].ind = RootIndent(t, i)

FirstTop(t, k) ==
    IF \E i \in DOMAIN t : TopLevelKey(t, i, k)
    THEN CHOOSE i \in DOMAIN t :
            TopLevelKey(t, i, k) /\ \A j \in 1..(i - 1) : ~TopLevelKey(t, j, k)
    ELSE 0

ExpectedInsertion(t) ==
    LET at == IF FirstTop(t, "name") # 0 THEN FirstTop(t, "name")
              ELSE FirstTop(t, "on") - 1
    IN IF at = -1 THEN t
       ELSE SubSeq(t, 1, at) \o concurrencyBlock \o SubSeq(t, at + 1, Len(t))

NoRefs(t) == [i \in DOMAIN t |-> [t[i] EXCEPT !.ref = ""]]

\* C9: an applied insertion puts the four-line block right after the line of
\* the top-level name key, or else right before the line of the top-level on
\* key, keeping every original line in order; with neither key nothing is
\* inserted.
C9_InsertionPoint ==
    runs >= 1 =>
        /\ InsertedBlock => NoRefs(fixed) = NoRefs(ExpectedInsertion(original))
        /\ (FirstTop(original, "name") = 0 /\ FirstTop(original, "on") = 0)
                => ~InsertedBlock

FallbackSeesConcurrency(t) ==
    \E i \in DOMAIN t : ~IsComment(t[i]) /\ ~t[i].dash /\ t[i].key = "concurrency"

AnchorLine(t) == \E i \in DOMAIN t : ~t[i].dash /\ t[i].key \in {"name", "on"}

\* C10: fix returns a result for a text that does not parse as YAML too:
\* the block is inserted exactly when no non-comment line has the key
\* concurrency (and an anchor line exists), and the pin-table references
\* are rewritten all the same.
C10_TextModeStillFixes ==
    (runs >= 1 /\ Unmarshal(original).err) =>
        /\ fixed # <<>>
        /\ InsertedBlock <=>
                (~FallbackSeesConcurrency(original) /\ AnchorLine(original))
        /\ \A i \in DOMAIN UsesLines(original) :
                Pinnable(UsesLines(original)[i]) =>
                    UsesLines(fixed)[i].ref = RecommendedVersion(UsesLines(original)[i].val)

C10_Witness ==
    /\ runs = 1
    /\ Unmarshal(original).err
    /\ InsertedBlock
    /\ \E i \in DOMAIN original : Pinnable(original[i])

\* ------------------------------------------------- properties of reports
Malformed(t) == \E i \in DOMAIN t : IsMalformed(t[i])

CronValues(t) ==
    LET ls == SelectSeq(t, LAMBDA l : l.key = "cron")
    IN [i \in DOMAIN ls |-> Unquote(ls[i].val)]

IsReport(r) ==
    /\ DOMAIN r = {"mode", "doc", "Triggers", "Schedules", "Runners", "HasConcurrency",
                   "UsesUnpinnedAction", "UnpinnedDetails", "DeprecatedHints"}
    /\ r.mode \in {"structured", "fallback"}

\* C11: the extraction of a readable text always yields a report; when the
\* text does not decode, or decodes to no mapping, the report is the one of
\* the text fallback; a malformed text with the same cron expression twice
\* has that expression twice as its Schedules and no consolidation hint.
C11_NeverFails ==
    report # <<>> =>
        /\ IsReport(report[1])
        /\ (ParseDoc(file).err \/ ParseDoc(file).nil) =>
                /\ report[1].mode = "fallback"
                /\ report[1] = analyzeWorkflowTextFallback(file)
        /\ (Malformed(file) /\ Len(CronValues(file)) = 2
                /\ CronValues(file)[1] = CronValues(file)[2]) =>
                /\ report[1].Schedules = <<"0 0 * * *", "0 0 * * *">>
                /\ HintSchedules \notin Range(report[1].DeprecatedHints)

C11_Witness ==
    /\ report # <<>>
    /\ Malformed(file)
    /\ report[1].mode = "fallback"
    /\ report[1].Schedules = <<"0 0 * * *", "0 0 * * *">>
    /\ report[1].DeprecatedHints # <<>>

\* the names of the workflow files of the directory that could be read
ReadableNames(d, e) ==
    LET fs == SelectSeq(d, LAMBDA x : ~x.isDir /\ IsWorkflowName(x.name))
        idx == SelectSeq([i \in DOMAIN d |-> i],
                         LAMBDA i : i \in WorkflowFiles(d) /\ e.readable[i])
    IN [k \in DOMAIN idx |-> d[idx[k]].name]

Files(ws) == [i \in DOMAIN ws |-> ws[i].File]

C12_ScanPart ==
    (defrag # <<>> /\ env[1].listable) =>
        /\ ~defrag[1].err
        /\ Files(defrag[1].Workflows) = ReadableNames(dir, env[1])

C12_AutofixPart ==
    (autofix' # <<>> /\ env'[1].listable /\ env'[1].patchWritable) =>
        /\ ~autofix'[1].err
        /\ Len(dir') = Len(dir)
        /\ \A i \in DOMAIN dir :
              dir'[i] =
                IF /\ i \in WorkflowFiles(dir)
                   /\ env'[1].readable[i] /\ env'[1].writable[i] /\ ~env'[1].dryRun
                THEN [dir[i] EXCEPT !.text = applyAutoFixes(dir[i].text).text]
                ELSE dir[i]

\* C12: over a directory that can be listed the scan returns no error and
\* one report for each .yml/.yaml file that could be read, malformed ones
\* included, and none for the others; a repo-autofix run returns no error
\* after a failed read or write of a workflow file and still fixes every
\* other file.
C12_BatchNeverAborted == [](C12_ScanPart) /\ [][C12_AutofixPart]_vars

C12_Witness ==
    /\ defrag # <<>>
    /\ \E i \in WorkflowFiles(dir) : ~env[1].readable[i]
    /\ \E i \in WorkflowFiles(dir) : env[1].readable[i] /\ Malformed(dir[i].text)
    /\ Len(defrag[1].Workflows) = 1
    /\ defrag[1].Workflows[1].mode = "fallback"

Enrichments == {"disabled", "fails", "succeeds"}

\* C13: a failed enrichment leaves the run without error and without GitHub
\* data, and the workflow reports and the four counts are the ones of the
\* run with any other outcome of the enrichment.
C13_EnrichmentIsolated ==
    (defrag # <<>> /\ env[1].listable) =>
        /\ env[1].enrich = "fails" => (~defrag[1].err /\ defrag[1].GitHub = <<>>)
        /\ \A x \in Enrichments :
              LET other == runRepoDefrag(dir, [env[1] EXCEPT !.enrich = x])
              IN /\ other.Workflows = defrag[1].Workflows
                 /\ other.Summary = defrag[1].Summary
                 /\ other.err = defrag[1].err

C13_Witness ==
    /\ defrag # <<>>
    /\ env[1].enrich = "fails"
    /\ ~defrag[1].err
    /\ defrag[1].Summary.WorkflowCount = 2
    /\ defrag[1].Summary.WorkflowsWithUnpinned = 1

CountOf(ws, P(_)) == Cardinality({i \in DOMAIN ws : P(ws[i])})

OlderThan(w, days) == w.LastModified # <<>> /\ w.LastModified[1] > days

\* C14: the four counts are the number of reports, of reports with
\* UsesUnpinnedAction, of reports without concurrency and of reports older
\* than the threshold; each lies between 0 and WorkflowCount, and no report
\* gives four zeros and no error.
C14_SummaryCounts ==
    (defrag # <<>> /\ env[1].listable) =>
        LET ws == defrag[1].Workflows
            sm == defrag[1].Summary
        IN /\ ~defrag[1].err
           /\ sm.WorkflowCount = Len(ws)
           /\ sm.WorkflowsWithUnpinned = CountOf(ws, LAMBDA w : w.UsesUnpinnedAction)
           /\ sm.WorkflowsWithoutConcurrency = CountOf(ws, LAMBDA w : ~w.HasConcurrency)
           /\ sm.WorkflowsStale = CountOf(ws, LAMBDA w : OlderThan(w, defragDaysStale))
           /\ \A c \in {sm.WorkflowsWithUnpinned, sm.WorkflowsWithoutConcurrency,
                         sm.WorkflowsStale} : c >= 0 /\ c <= sm.WorkflowCount
           /\ ws = <<>> => /\ sm.WorkflowCount = 0 /\ sm.WorkflowsStale = 0
                           /\ sm.WorkflowsWithUnpinned = 0
                           /\ sm.WorkflowsWithoutConcurrency = 0

C14_Witness ==
    /\ defrag # <<>>
    /\ defrag[1].Summary.WorkflowCount = 2
    /\ defrag[1].Summary.WorkflowsStale = 1
    /\ defrag[1].Summary.WorkflowsWithUnpinned = 1
    /\ defrag[1].Summary.WorkflowsWithoutConcurrency = 2

\* C15: the consolidation hint is in the report exactly when the workflow
\* has more than 5 distinct schedules, and the overlap hint exactly when it
\* has more than 5 distinct triggers.
C15_DistinctHints ==
    report # <<>> =>
        /\ HintSchedules \in Range(report[1].DeprecatedHints)
                <=> Cardinality(Range(report[1].Schedules)) > 5
        /\ HintTriggers \in Range(report[1].DeprecatedHints)
                <=> Cardinality(Range(report[1].Triggers)) > 5

ExpectedRecommendations(w, days) ==
    SelectSeq(<<RecStale, RecPin, RecConcurrency, RecRunsOn>>,
              LAMBDA r : \/ r = RecStale /\ OlderThan(w, days)
                         \/ r = RecPin /\ w.UsesUnpinnedAction
                         \/ r = RecConcurrency /\ ~w.HasConcurrency
                         \/ r = RecRunsOn /\ w.Runners = <<>>)

\* C16: the recommendations are the subsequence of stale, pin actions, add
\* concurrency, specify runs-on made of the rules whose condition holds,
\* each rule on its own.
C16_Recommendations ==
    report # <<>> =>
        report[1].Recommendations = ExpectedRecommendations(report[1], defragDaysStale)

C16_Witness ==
    /\ report # <<>>
    /\ report[1].Recommendations = <<RecStale, RecPin, RecConcurrency, RecRunsOn>>

\* C17: a workflow whose history lookup failed is reported, has no stale
\* recommendation and is not counted as stale, and has the other
\* recommendations its facts give; WorkflowsStale counts the workflows with
\* a LastModified older than the threshold.
C17_MissingHistory ==
    (defrag # <<>> /\ env[1].listable) =>
        LET ws == defrag[1].Workflows
        IN /\ \A i \in WorkflowFiles(dir) :
                (env[1].readable[i] /\ env[1].history[i] = <<>>) =>
                    \E k \in DOMAIN ws :
                        /\ ws[k].File = dir[i].name
                        /\ ws[k].LastModified = <<>>
           /\ \A k \in DOMAIN ws :
                ws[k].LastModified = <<>> =>
                    ws[k].Recommendations =
                        SelectSeq(<<RecPin, RecConcurrency, RecRunsOn>>,
                            LAMBDA r : \/ r = RecPin /\ ws[k].UsesUnpinnedAction
                                       \/ r = RecConcurrency /\ ~ws[k].HasConcurrency
                                       \/ r = RecRunsOn /\ ws[k].Runners = <<>>)
           /\ defrag[1].Summary.WorkflowsStale =
                CountOf(ws, LAMBDA w : OlderThan(w, defragDaysStale))

C17_Witness ==
    /\ defrag # <<>>
    /\ Len(defrag[1].Workflows) = 2
    /\ defrag[1].Workflows[1].LastModified = <<>>
    /\ defrag[1].Workflows[1].Recommendations = <<RecPin, RecConcurrency>>
    /\ defrag[1].Workflows[2].LastModified = <<MaxAge>>
    /\ defrag[1].Summary.WorkflowsStale = 1

NoDuplicates(q) == Cardinality(Range(q)) = Len(q)

\* C18: in the report of either mode no trigger and no runner is there twice.
C18_Deduplicated ==
    report # <<>> => (NoDuplicates(report[1].Triggers) /\ NoDuplicates(report[1].Runners))

\* C19: the UnpinnedDetails of a text are always the same sequence, jobs in
\* the order they are declared and steps in their order within a job.
C19_FirstSeenOrder ==
    report # <<>> =>
        report[1].UnpinnedDetails = analyzeWorkflowFile(file, DeclOrder).UnpinnedDetails

\* a concurrency key at the top level, or directly inside a job
ConcurrencyKeyAt(t, ind) ==
    \E i \in DOMAIN t : ~t[i].dash /\ t[i].key = "concurrency" /\ t[i].ind = ind

\* C20: the mapping walk reports concurrency exactly when the workflow has a
\* concurrency key at the top level or directly inside a job of jobs; a
\* concurrency key inside a step does not count.
C20_ConcurrencyLevels ==
    (report # <<>> /\ report[1].mode = "structured") =>
        (report[1].HasConcurrency <=> (ConcurrencyKeyAt(file, 0) \/ ConcurrencyKeyAt(file, 4)))

\* --------------------------------------------------- the layout of a patch
Min(a, b) == IF a < b THEN a ELSE b

\* the lines of a patch body written with the given prefix
Prefixed(p, c) == SelectSeq(p, LAMBDA x : x[1] = c)

\* the hunk body the layout prescribes for two line sequences
ExpectedBody(o, f) ==
    LET k == Min(Len(o), Len(f))
    IN Flatten([i \in 1..k |->
                    IF o[i] = f[i] THEN <<<<" ", o[i]>>>>
                    ELSE <<<<"-", o[i]>>, <<"+", f[i]>>>>])
       \o [i \in 1..(Len(o) - k) |-> <<"-", o[k + i]>>]
       \o [i \in 1..(Len(f) - k) |-> <<"+", f[k + i]>>]

\* C21: the patch is the two file lines, the hunk line with the numbers of
\* original and fixed lines, then per index below both lengths one context
\* line or a removed line followed by an added line, then the surplus as
\* removed lines only or added lines only; context and removed lines number
\* the original lines, context and added lines number the fixed lines.
C21_DiffLayout ==
    patch # <<>> =>
        LET body == SubSeq(patch, 4, Len(patch))
        IN /\ Len(patch) >= 3
           /\ patch[1] = <<"--- a/", FileName>>
           /\ patch[2] = <<"+++ b/", FileName>>
           /\ patch[3] = <<"@@", <<Len(original), Len(fixed)>>>>
           /\ body = ExpectedBody(original, fixed)
           /\ Len(Prefixed(body, " ")) + Len(Prefixed(body, "-")) = Len(original)
           /\ Len(Prefixed(body, " ")) + Len(Prefixed(body, "+")) = Len(fixed)

C21_Witness ==
    /\ patch # <<>>
    /\ Len(original) = 2
    /\ Len(fixed) = 3
    /\ original[1] = fixed[1]
    /\ original[2] # fixed[2]
    /\ Prefixed(patch, "+") = <<<<"+", fixed[2]>>, <<"+", fixed[3]>>>>

\* ------------------------------------------------- the order of the reports
\* the entries of the directory visited in the order p
Visited(d, p) == [i \in DOMAIN d |-> d[p[i]]]

\* the answers of the environment, each following its entry
VisitedEnv(d, e, p) ==
    LET fs == WorkflowFiles(Visited(d, p))
    IN [e EXCEPT !.readable = [i \in fs |-> e.readable[p[i]]],
                 !.history = [i \in fs |-> e.history[p[i]]],
                 !.orders = [i \in fs |-> e.orders[p[i]]],
                 !.writable = [i \in fs |-> e.writable[p[i]]]]

\* C22: the reports of a scan are in ascending order of their file, every
\* order of visiting the entries gives the same list, and each report is
\* what the loop body makes of that file's own text and history.
C22_OrderIndependent ==
    (defrag # <<>> /\ env[1].listable) =>
        LET ws == defrag[1].Workflows
            e == env[1]
        IN /\ \A k \in 1..(Len(ws) - 1) : Less(ws[k].File, ws[k + 1].File)
           /\ \A p \in Permutations(DOMAIN dir) :
                scanWorkflows(Visited(dir, p), VisitedEnv(dir, e, p),
                              defragDaysStale).out = ws
           /\ \A k \in DOMAIN ws :
                \E i \in WorkflowFiles(dir) :
                    /\ e.readable[i]
                    /\ ws[k] = scanWorkflow(dir[i].name, dir[i].text, e.orders[i],
                                            e.history[i], defragDaysStale)

C22_Witness ==
    /\ defrag # <<>>
    /\ Len(dir) = 4
    /\ Len(defrag[1].Workflows) = 2
    /\ defrag[1].Workflows[1].File = "a.yml"
    /\ defrag[1].Workflows[2].File = "b.yaml"
    /\ defrag[1].Workflows[1].Recommendations # defrag[1].Workflows[2].Recommendations

\* ------------------------------------------------ the files after autofix
\* C23: a repo-autofix run with --dry-run leaves every entry of the
\* workflows directory with the content it had, whatever the files are and
\* whatever the fixes find.
C23_DryRunWritesNothing ==
    [][(autofix' # <<>> /\ env'[1].dryRun) => (dir' = dir /\ autofix'[1].dir = dir)]_vars

C23_Witness ==
    /\ autofix # <<>>
    /\ env[1].dryRun
    /\ env[1].patchOut
    /\ autofix[1].fixCount = 2
    /\ Len(autofix[1].allPatches) = 2
    /\ \A i \in WorkflowFiles(dir) : applyAutoFixes(dir[i].text).changed

\* ------------------------------------------------- the end-to-end example
\* on: [push], one job on ubuntu-22.04 with a step uses: actions/checkout,
\* no name and no concurrency key
ExampleText ==
    <<L(0, FALSE, "on", "[push]", ""),
      L(0, FALSE, "jobs", "", ""),
      L(2, FALSE, "build", "", ""),
      L(4, FALSE, "runs-on", "ubuntu-22.04", ""),
      L(4, FALSE, "steps", "", ""),
      L(6, TRUE, "uses", "actions/checkout", "")>>

\* the example with the block before its on: line and the step pinned
ExampleFixed ==
    <<Blank,
      L(0, FALSE, "concurrency", "", ""),
      L(2, FALSE, "group", "${{ github.workflow }}-${{ github.ref }}", ""),
      L(2, FALSE, "cancel-in-progress", "true", ""),
      L(0, FALSE, "on", "[push]", ""),
      L(0, FALSE, "jobs", "", ""),
      L(2, FALSE, "build", "", ""),
      L(4, FALSE, "runs-on", "ubuntu-22.04", ""),
      L(4, FALSE, "steps", "", ""),
      L(6, TRUE, "uses", "actions/checkout", "v4")>>

C24_ScanPart ==
    (defrag # <<>> /\ env[1].listable) =>
        \A i \in WorkflowFiles(dir) :
            (env[1].readable[i] /\ dir[i].text = ExampleText) =>
                \E k \in DOMAIN defrag[1].Workflows :
                    LET w == defrag[1].Workflows[k]
                    IN /\ w.File = dir[i].name
                       /\ w.Triggers = <<"push">>
                       /\ w.Runners = <<"ubuntu-22.04">>
                       /\ ~w.HasConcurrency
                       /\ w.UsesUnpinnedAction
                       /\ Len(w.UnpinnedDetails) = 1
                       /\ w.UnpinnedDetails[1].job = "build"
                       /\ w.UnpinnedDetails[1].val = "actions/checkout"
                       /\ w.DeprecatedHints = <<HintUbuntu>>
                       /\ SelectSeq(w.Recommendations, LAMBDA r : r # RecStale)
                            = <<RecPin, RecConcurrency>>

C24_FixPart ==
    (autofix' # <<>> /\ env'[1].listable /\ ~env'[1].dryRun) =>
        \A i \in WorkflowFiles(dir) :
            (env'[1].readable[i] /\ env'[1].writable[i] /\ dir[i].text = ExampleText) =>
                dir'[i].text = ExampleFixed

\* C24: for the example document the scan reports the trigger push, the
\* runner ubuntu-22.04, no concurrency and one unpinned entry for
\* actions/checkout, with the ubuntu-22.04 hint and the pin and concurrency
\* recommendations; the fix writes the concurrency block immediately before
\* the on: line and the step as actions/checkout@v4.
C24_EndToEnd == [](C24_ScanPart) /\ [][C24_FixPart]_vars

C24_Witness ==
    /\ autofix # <<>>
    /\ ~env[1].dryRun
    /\ runs = 1
    /\ \E i \in WorkflowFiles(dir) :
          /\ env[1].readable[i]
          /\ env[1].writable[i]
          /\ dir[i].text = ExampleFixed

C24_ScanWitness ==
    /\ defrag # <<>>
    /\ \E i \in WorkflowFiles(dir) : env[1].readable[i] /\ dir[i].text = ExampleText
    /\ Len(defrag[1].Workflows) > 0

\* ------------------------------------------ properties of the text fallback
\* the list items written directly under line i of the text
ItemsUnder(t, i) ==
    {t[j].val : j \in {j \in (i + 1)..Len(t) :
                        /\ t[j].dash /\ t[j].key = "" /\ t[j].ind > t[i].ind
                        /\ \A k \in (i + 1)..j :
                              t[k].dash /\ t[k].key = "" /\ t[k].ind = t[j].ind}}

\* the values that follow a runs-on key: a scalar, the elements of a
\* bracketed list, the list items under the key
RunsOnLabels(t) ==
    UNION {IF t[i].val = "" THEN ItemsUnder(t, i)
           ELSE IF IsFlowSeq(t[i]) THEN Range(FlowItems(t[i].val))
           ELSE {t[i].val} :
           i \in {i \in DOMAIN t : t[i].key = "runs-on"}}

\* C25: every runner the text fallback reports is a value that follows a
\* runs-on key of the text.
C25_OnlyRunnerLabels ==
    (report # <<>> /\ report[1].mode = "fallback") =>
        Range(report[1].Runners) \subseteq RunsOnLabels(file)

\* C26: the text fallback flags exactly the uses lines, step lines with the
\* list marker included, whose reference is not local and has no ref or the
\* ref main, master, HEAD or latest.
C26_EveryUsesLine ==
    (report # <<>> /\ report[1].mode = "fallback") =>
        LET flagged == SelectSeq(UsesLines(file),
                          LAMBDA l : /\ ~HasPrefix(l.val, "./")
                                     /\ ~HasPrefix(l.val, "../")
                                     /\ ~HasPrefix(l.val, "docker://")
                                     /\ l.ref \in {"", "main", "master", "HEAD", "latest"})
        IN /\ report[1].UnpinnedDetails =
                [i \in DOMAIN flagged |-> Detail("", flagged[i].val, flagged[i].ref)]
           /\ report[1].UsesUnpinnedAction = (flagged # <<>>)

\* ------------------------------------------------ the count of fixed files
\* C27: the number of files a repo-autofix run reports is, with
\* --dry-run=false, the number of workflow files it overwrote with their
\* fixed text, also when a write failed, and with --dry-run the number of
\* files whose fix changed something.
C27_CountAccurate ==
    [][(autofix' # <<>> /\ env'[1].listable) =>
          autofix'[1].fixCount =
            IF env'[1].dryRun
            THEN Cardinality({i \in WorkflowFiles(dir) :
                    env'[1].readable[i] /\ applyAutoFixes(dir[i].text).changed})
            ELSE Cardinality({i \in WorkflowFiles(dir) : dir'[i].text # dir[i].text})]_vars

\* ------------------------------------------------------- the changed flag
\* C28: applyAutoFixes reports changed exactly when the text it returns
\* differs from the text it was given, and a changed text has the block
\* inserted or a line rewritten.
C28_ChangedExact ==
    runs > 0 =>
        /\ changed <=> (fixed # original)
        /\ changed =>
              \/ Len(fixed) = Len(original) + Len(concurrencyBlock)
              \/ /\ Len(fixed) = Len(original)
                 /\ \E i \in DOMAIN fixed : fixed[i] # original[i]

C28_Witness ==
    /\ runs = 1
    /\ changed
    /\ Len(fixed) = Len(original)
    /\ \E i \in DOMAIN fixed : fixed[i].ref = "v5" /\ original[i].ref = "main"

\* ------------------------------------------------------- fix, then extract
\* C29: when the last autofix run inserted the concurrency block, the
\* extraction from the text it produced reports concurrency.
C29_FixThenExtract ==
    (report # <<>> /\ runs > 0 /\ changed /\ InsertedBlock) => report[1].HasConcurrency

\* ------------------------------------------------- what apply mode writes
\* the workflow files of the directory whose fix changes something
ChangedFiles(d) ==
    SelectSeq([i \in DOMAIN d |-> i],
              LAMBDA i : i \in WorkflowFiles(d) /\ applyAutoFixes(d[i].text).changed)

\* C30: a repo-autofix run with --dry-run=false in which no read and no
\* write fails leaves every changed .yml/.yaml file with its fixed text and
\* every other entry as it was, reads only the .yml/.yaml files and writes
\* only the changed ones, and makes one patch entry per changed file and
\* none for the others.
C30_ApplyWritesChanged ==
    [][(/\ autofix' # <<>>
        /\ ~env'[1].dryRun
        /\ env'[1].listable /\ env'[1].patchWritable
        /\ \A i \in WorkflowFiles(dir) : env'[1].readable[i] /\ env'[1].writable[i]) =>
          LET ch == ChangedFiles(dir)
          IN /\ Len(dir') = Len(dir)
             /\ \A i \in DOMAIN dir :
                   dir'[i] = IF i \in Range(ch)
                             THEN [dir[i] EXCEPT !.text = applyAutoFixes(dir[i].text).text]
                             ELSE dir[i]
             /\ autofix'[1].read = WorkflowFiles(dir)
             /\ autofix'[1].written = Range(ch)
             /\ autofix'[1].allPatches =
                   IF env'[1].patchOut
                   THEN [k \in DOMAIN ch |->
                            generateUnifiedDiff(dir[ch[k]].name, dir[ch[k]].text,
                                                applyAutoFixes(dir[ch[k]].text).text)]
                   ELSE <<>>]_vars

C30_Witness ==
    /\ autofix # <<>>
    /\ ~env[1].dryRun
    /\ env[1].patchOut
    /\ ~autofix[1].err
    /\ Len(dir) = 4
    /\ autofix[1].read = {1, 2}
    /\ autofix[1].written = {1}
    /\ Len(autofix[1].allPatches) = 1
    /\ dir[1].text = ExampleFixed
    /\ runs = 1

====
